---- MODULE Spec2Model ----
(***************************************************************************)
(* A model of arbok/bench.py: the Benchmark job generator (create_job,     *)
(* create_jobs, submit_jobs), the job runner (get_preprocessor, run_job)   *)
(* and the command-line entry point cli with its JSON log file.            *)
(*                                                                         *)
(* Strings are built by concatenation exactly where the source builds      *)
(* them with f-strings; str(int) is ToString.                              *)
(***************************************************************************)
EXTENDS Naturals, Sequences, FiniteSets, TLC

VARIABLES
    bench,      \* the Benchmark object: its four fields, or not yet constructed
    dirs,       \* directories that exist in the working directory
    files,      \* regular files directly under jobs/: name -> content
    subdirs,    \* names directly under jobs/ that are directories
    lastcall,   \* history: per (classifier, task) the options of the latest create_job
    gen_last,   \* history: the most recent generator call, its outcome, the text it replaced
    log_file,   \* the log file of the runner: absent, truncated, or a JSON object
    apikey,     \* openml.config.apikey, global to the tracking-service client
    next_run_id,\* the identifier the tracking service gives the next published run
    pc,         \* per runner process: where it is in cli
    rec,        \* per runner process: the run id that run_job returned (0: none)
    data,       \* per runner process: the dict named data in cli
    last,       \* history: the call of cli, run_job or get_preprocessor just made
    published,  \* history: the run ids published on the tracking service
    completed,  \* history: the run ids whose runner wrote the log and ended
    log_init,   \* history: the log file before any runner started
    last_writer \* history: the runner that wrote the log last (0: none)

gen_vars == <<bench, dirs, files, subdirs, lastcall, gen_last>>
run_vars == <<log_file, apikey, next_run_id, pc, rec, data, last, published, completed,
              log_init, last_writer>>
vars == <<bench, dirs, files, subdirs, lastcall, gen_last,
          log_file, apikey, next_run_id, pc, rec, data, last, published, completed,
          log_init, last_writer>>

----------------------------------------------------------------------------
(* Bounds of the model. *)

\* task identifiers are 1..MaxTask
MaxTask == 2
\* runner processes are 1..NumProcs
NumProcs == 2
\* the tracking service publishes at most MaxRunId runs, numbered 1..MaxRunId
MaxRunId == 2

----------------------------------------------------------------------------
(* Values. *)

Tasks == 1..MaxTask
GenClassifiers == {"tpot", "autosklearn"}
\* classifier names create_jobs is also tried with: any string is accepted
AllClassifiers == GenClassifiers \cup {"tpot_1"}
DefaultClassifiers == <<"tpot", "autosklearn">>
JobsDirs == {"jobs", "other"}
Headers == "#PBS -l nodes=1"
PythonInterpreter == "python3"
ConfigFile == "config.json"
\* (preprocessor, log) pairs handed to create_job; the first is the default
JobOptions == { <<"default", "log.json">>, <<"other", "run.json">> }
DefaultJobOptions == <<"default", "log.json">>
ExitCodes == {0, 1}

NoBench == [made |-> FALSE, headers |-> "", python_interpreter |-> "",
            jobs_dir |-> "", config_file |-> ""]

Range(s) == { s[i] : i \in DOMAIN s }
Distinct(s) == \A i, j \in DOMAIN s : i # j => s[i] # s[j]
Perms(S) == { s \in [1..Cardinality(S) -> S] : Range(s) = S }
\* the lists of distinct elements of S
Lists(S) == UNION { Perms(T) : T \in SUBSET S }

NoGenCall == [op |-> "none", err |-> "", tasks |-> <<>>, classifiers |-> <<>>,
              pre_empty |-> FALSE, replaced |-> "", writes |-> <<>>, qsub |-> <<>>]
NoLastCall == [set |-> FALSE, preprocessor |-> "", log |-> ""]

----------------------------------------------------------------------------
(* Benchmark.__init__ *)

BenchmarkInit(headers, python_interpreter, jobs_dir, config_file) ==
    /\ bench' = [made |-> TRUE, headers |-> headers,
                 python_interpreter |-> python_interpreter,
                 jobs_dir |-> jobs_dir, config_file |-> config_file]
    /\ dirs' = IF jobs_dir \notin dirs THEN dirs \cup {jobs_dir} ELSE dirs
    /\ gen_last' = [NoGenCall EXCEPT !.op = "__init__"]
    /\ UNCHANGED <<files, subdirs, lastcall>>
    /\ UNCHANGED run_vars

----------------------------------------------------------------------------
(* Benchmark.create_job *)

\* the directory create_job opens its script in
JobDir(b) == "jobs"

\* the path component after jobs/
JobFileName(clf_name, task_id) == clf_name \o "_" \o ToString(task_id) \o ".sh"

\* what the seven f.write calls put in the file
JobScript(b, task_id, clf_name, preprocessor, log) ==
    b.headers \o "\n"
    \o b.python_interpreter \o " -m arbok "
    \o "--classifier " \o clf_name \o " "
    \o "--task-id " \o ToString(task_id) \o " "
    \o "--config " \o b.config_file \o " "
    \o "--preprocessor " \o preprocessor \o " "
    \o "--log " \o log \o " "

\* open(name, "w+") followed by the writes: the file holds the new text only;
\* the first is the file opened for appending
OpenWriteAppend(fs, name, text) ==
    [n \in DOMAIN fs \cup {name} |->
        IF n = name THEN (IF n \in DOMAIN fs THEN fs[n] \o text ELSE text) ELSE fs[n]]
OpenWrite(fs, name, text) ==
    [n \in DOMAIN fs \cup {name} |-> IF n = name THEN text ELSE fs[n]]

\* the outcome of one create_job on st: the files of jobs/, the latest options
\* per pair, the error raised so far and the names written so far
create_job(st, b, task_id, clf_name, preprocessor, log) ==
    IF st.err # "" THEN st
    ELSE IF JobDir(b) \notin dirs
    THEN [st EXCEPT !.err = "FileNotFoundError"]
    ELSE [st EXCEPT
            !.fs = OpenWrite(st.fs, JobFileName(clf_name, task_id),
                             JobScript(b, task_id, clf_name, preprocessor, log)),
            !.lc = [st.lc EXCEPT ![<<clf_name, task_id>>] =
                       [set |-> TRUE, preprocessor |-> preprocessor, log |-> log]],
            !.writes = Append(st.writes, JobFileName(clf_name, task_id))]

GenState == [fs |-> files, lc |-> lastcall, err |-> "", writes |-> <<>>]

CreateJob(task_id, clf_name, preprocessor, log) ==
    /\ bench.made
    /\ \E st \in {create_job(GenState, bench, task_id, clf_name, preprocessor, log)} :
          /\ files' = st.fs
          /\ lastcall' = st.lc
          /\ gen_last' = [NoGenCall EXCEPT !.op = "create_job", !.err = st.err,
                             !.tasks = <<task_id>>, !.classifiers = <<clf_name>>,
                             !.pre_empty = (DOMAIN files = {} /\ subdirs = {}),
                             !.replaced =
                                 IF JobFileName(clf_name, task_id) \in DOMAIN files
                                 THEN files[JobFileName(clf_name, task_id)] ELSE "",
                             !.writes = st.writes]
    /\ UNCHANGED <<bench, dirs, subdirs>>
    /\ UNCHANGED run_vars

----------------------------------------------------------------------------
(* Benchmark.create_jobs *)

\* the (classifier, task) pairs in the order the nested loops visit them:
\* classifiers outside, tasks inside; the first is the loops the other way round
JobPairsTaskMajor(tasks, classifiers) ==
    [k \in 1..(Len(classifiers) * Len(tasks)) |->
        << classifiers[((k - 1) % Len(classifiers)) + 1],
           tasks[((k - 1) \div Len(classifiers)) + 1] >>]
JobPairs(tasks, classifiers) ==
    [k \in 1..(Len(classifiers) * Len(tasks)) |->
        << classifiers[((k - 1) \div Len(tasks)) + 1],
           tasks[((k - 1) % Len(tasks)) + 1] >>]

RECURSIVE create_jobs_loop(_, _, _, _)
create_jobs_loop(st, b, pairs, k) ==
    IF k > Len(pairs) THEN st
    ELSE create_jobs_loop(
            create_job(st, b, pairs[k][2], pairs[k][1],
                       DefaultJobOptions[1], DefaultJobOptions[2]),
            b, pairs, k + 1)

\* classifiers is a record [given, list]: given = FALSE is the argument None
CreateJobs(tasks, classifiers) ==
    /\ bench.made
    /\ \E clfs \in {IF ~classifiers.given THEN DefaultClassifiers ELSE classifiers.list} :
       \E st \in {create_jobs_loop(GenState, bench, JobPairs(tasks, clfs), 1)} :
          /\ files' = st.fs
          /\ lastcall' = st.lc
          /\ gen_last' = [NoGenCall EXCEPT !.op = "create_jobs", !.err = st.err,
                             !.tasks = tasks, !.classifiers = clfs,
                             !.pre_empty = (DOMAIN files = {} /\ subdirs = {}),
                             !.writes = st.writes]
    /\ UNCHANGED <<bench, dirs, subdirs>>
    /\ UNCHANGED run_vars

----------------------------------------------------------------------------
(* Benchmark.submit_jobs *)

\* [f for f in os.listdir("jobs/") if os.path.isfile(os.path.join("jobs/", f))]
SubmitFiles == DOMAIN files

\* the subprocess.call of every file of the listing, in its order; rc is the
\* exit status of each submission, which the loop does not look at; the first
\* is a loop that ends at the first submission that fails
RECURSIVE SubmitLoopStopOnFailure(_, _, _)
SubmitLoopStopOnFailure(listing, rc, k) ==
    IF k > Len(listing) THEN <<>>
    ELSE <<[argv |-> <<"qsub", "jobs/" \o listing[k]>>, rc |-> rc[listing[k]]]>>
         \o (IF rc[listing[k]] # 0 THEN <<>>
             ELSE SubmitLoopStopOnFailure(listing, rc, k + 1))
RECURSIVE SubmitLoop(_, _, _)
SubmitLoop(listing, rc, k) ==
    IF k > Len(listing) THEN <<>>
    ELSE <<[argv |-> <<"qsub", "jobs/" \o listing[k]>>, rc |-> rc[listing[k]]]>>
         \o SubmitLoop(listing, rc, k + 1)

SubmitJobs ==
    /\ bench.made
    /\ IF "jobs" \notin dirs
       THEN gen_last' = [NoGenCall EXCEPT !.op = "submit_jobs",
                                          !.err = "FileNotFoundError"]
       ELSE \E listing \in Perms(SubmitFiles) :
            \E rc \in [SubmitFiles -> ExitCodes] :
               gen_last' = [NoGenCall EXCEPT !.op = "submit_jobs",
                                             !.qsub = SubmitLoop(listing, rc, 1)]
    /\ UNCHANGED <<bench, dirs, files, subdirs, lastcall>>
    /\ UNCHANGED run_vars

--------------------------------------------------------------------------------------------------------------------------------------------------------------------------------------------------------------------------
(* Values of the runner. *)

Procs == 1..NumProcs
RunIds == 1..MaxRunId

\* an optional string: None, or a string (possibly empty)
None == [some |-> FALSE, v |-> ""]
Some(s) == [some |-> TRUE, v |-> s]
\* Python truth of an optional string: None and "" are false
Truthy(x) == x.some /\ x.v # ""

Server == "https://www.openml.org/api/v1"
TaskId == "31"
InitUrl == "urlA"

\* the files a --config argument can name
ConfigPaths == {"config.json", "broken.json", "missing.json", "confdir"}
ConfigFS ==
    [path \in ConfigPaths |->
        CASE path = "config.json" -> [kind |-> "file", keys |-> {"tpot", "autosklearn", "wrapper"}]
          [] path = "broken.json" -> [kind |-> "file", keys |-> {"tpot", "autosklearn"}]
          [] path = "missing.json" -> [kind |-> "absent", keys |-> {}]
          [] path = "confdir" -> [kind |-> "dir", keys |-> {}]]

\* the calls of the tracking-service client, in the order run_job can make them
CallSites == {"get_preprocessor:get_task", "get_preprocessor:get_dataset",
              "get_preprocessor:get_data", "run_job:get_task",
              "run_job:run_model_on_task", "run_job:publish"}
\* the categorical indicator of a dataset, one entry per column, the class last
Indicators == { <<>>, <<FALSE>>, <<TRUE, FALSE, TRUE>> }
\* what the collaborators do in one call: which client call raises (or none) and
\* what get_data returns
Envs == [fail : {"none"}, categorical : Indicators]
        \cup [fail : CallSites, categorical : {<<>>}]

Call(fn, arg) == [fn |-> fn, arg |-> arg]
CollaboratorError(fn) == "collaborator error: " \o fn

NoPipeline == [kind |-> "None", categorical_features |-> <<>>]
Pipeline(categorical) ==
    [kind |-> "Pipeline(ConditionalImputer, OneHotEncoder)",
     categorical_features |-> categorical]

NoRec == [id |-> 0, url |-> ""]
AbsentLog == [state |-> "absent", pairs |-> <<>>]
TruncatedLog == [state |-> "truncated", pairs |-> <<>>]
JsonLog(pairs) == [state |-> "json", pairs |-> pairs]

----------------------------------------------------------------------------
(* Benchmark.get_preprocessor *)

\* categorical[:-1]
ButLast(s) == IF Len(s) = 0 THEN <<>> ELSE SubSeq(s, 1, Len(s) - 1)

\* name == "default" (the first is the test with the else branch lost)
IsDefaultPreprocessorAny(name) == TRUE
IsDefaultPreprocessor(name) == name.v = "default"

get_preprocessor(task_id, name, env) ==
    IF ~name.some
    THEN [ret |-> NoPipeline, err |-> "", calls |-> <<>>]
    ELSE IF env.fail = "get_preprocessor:get_task"
    THEN [ret |-> NoPipeline, err |-> CollaboratorError("get_task"),
          calls |-> <<Call("get_task", task_id)>>]
    ELSE IF env.fail = "get_preprocessor:get_dataset"
    THEN [ret |-> NoPipeline, err |-> CollaboratorError("get_dataset"),
          calls |-> <<Call("get_task", task_id), Call("get_dataset", task_id)>>]
    ELSE IF env.fail = "get_preprocessor:get_data"
    THEN [ret |-> NoPipeline, err |-> CollaboratorError("get_data"),
          calls |-> <<Call("get_task", task_id), Call("get_dataset", task_id),
                      Call("get_data", task_id)>>]
    ELSE IF IsDefaultPreprocessor(name)
    THEN [ret |-> Pipeline(ButLast(env.categorical)), err |-> "",
          calls |-> <<Call("get_task", task_id), Call("get_dataset", task_id),
                      Call("get_data", task_id)>>]
    ELSE [ret |-> NoPipeline, err |-> "ValueError: Preprocessor " \o name.v \o " unknown",
          calls |-> <<Call("get_task", task_id), Call("get_dataset", task_id),
                      Call("get_data", task_id)>>]

----------------------------------------------------------------------------
(* Benchmark.run_job *)

\* the result URL of a run
RunUrl(run_id) == Server \o "/json/run/" \o ToString(run_id)

\* the wrapper class the dispatch on clf_name constructs ("" : the else
\* branch); the first is the dispatch with the else branch lost
WrapperClassDefaultTpot(clf_name) ==
    IF clf_name = "autosklearn" THEN "AutoSklearnWrapper" ELSE "TPOTWrapper"
WrapperClass(clf_name) ==
    IF clf_name = "tpot" THEN "TPOTWrapper"
    ELSE IF clf_name = "autosklearn" THEN "AutoSklearnWrapper"
    ELSE ""

\* openml.config.apikey after the "if apikey:" of run_job
ApikeyAfter(key, current) == IF Truthy(key) THEN key.v ELSE current

NoRun == [err |-> "", run_id |-> 0, url |-> "", calls |-> <<>>,
          pipeline |-> NoPipeline, published |-> FALSE, entered |-> TRUE]

\* run_id is the identifier the service gives the run when it is published
run_job(clf_name, task_id, preprocessor, env, run_id) ==
    LET gp == get_preprocessor(task_id, preprocessor, env)
        c1 == gp.calls \o <<Call("get_task", task_id)>>
        c2 == c1 \o <<Call("run_model_on_task", WrapperClass(clf_name))>>
        c3 == c2 \o <<Call("publish", WrapperClass(clf_name))>>
    IN  IF gp.err # ""
        THEN [NoRun EXCEPT !.err = gp.err, !.calls = gp.calls]
        ELSE IF WrapperClass(clf_name) = ""
        THEN [NoRun EXCEPT !.err = "ValueError: Classifier name " \o clf_name \o " unknown",
                           !.calls = gp.calls, !.pipeline = gp.ret]
        ELSE IF env.fail = "run_job:get_task"
        THEN [NoRun EXCEPT !.err = CollaboratorError("get_task"),
                           !.calls = c1, !.pipeline = gp.ret]
        ELSE IF env.fail = "run_job:run_model_on_task"
        THEN [NoRun EXCEPT !.err = CollaboratorError("run_model_on_task"),
                           !.calls = c2, !.pipeline = gp.ret]
        ELSE IF env.fail = "run_job:publish"
        THEN [NoRun EXCEPT !.err = CollaboratorError("publish"),
                           !.calls = c3, !.pipeline = gp.ret]
        ELSE [NoRun EXCEPT !.run_id = run_id, !.url = RunUrl(run_id),
                           !.calls = c3, !.pipeline = gp.ret, !.published = TRUE]

----------------------------------------------------------------------------
(* The JSON log file: json.load, dict.update, json.dump. *)

\* a key of a Python dict: a str (as json.load makes them) or an int (run.run_id)
StrKey(s) == [kind |-> "str", s |-> s, n |-> 0]
IntKey(n) == [kind |-> "int", s |-> "", n |-> n]

\* d[key] = val on an insertion-ordered dict
DictSet(d, key, val) ==
    IF \E i \in DOMAIN d : d[i].key = key
    THEN [i \in DOMAIN d |-> IF d[i].key = key THEN [key |-> key, val |-> val] ELSE d[i]]
    ELSE Append(d, [key |-> key, val |-> val])

\* json.load of an object: a repeated key keeps its last value
RECURSIVE json_load_from(_, _, _)
json_load_from(pairs, k, d) ==
    IF k > Len(pairs) THEN d
    ELSE json_load_from(pairs, k + 1, DictSet(d, StrKey(pairs[k][1]), pairs[k][2]))
json_load(pairs) == json_load_from(pairs, 1, <<>>)

\* data.update({id: output}); the first is data = {id: output}
dict_update_replace(d, id, output) == <<[key |-> IntKey(id), val |-> output]>>
dict_update(d, id, output) == DictSet(d, IntKey(id), output)

\* json.dump: every entry in dict order, its key turned into a JSON string
JsonKey(key) == IF key.kind = "str" THEN key.s ELSE ToString(key.n)
json_dump(d) == [i \in DOMAIN d |-> <<JsonKey(d[i].key), d[i].val>>]

----------------------------------------------------------------------------
(* cli *)

\* not task_id; the first is cli without the check
TaskIdMissingNever(task_id) == FALSE
TaskIdMissing(task_id) == ~Truthy(task_id)

\* os.path.isfile(config)
ConfigIsFile(config) == ConfigFS[config].kind = "file"

\* lines 130-143 of cli: the two checks, the config, run_job
cli_run(a, env, run_id) ==
    IF TaskIdMissing(a.task_id)
    THEN [NoRun EXCEPT !.err = "ClickException: Please specify a task id.",
                       !.entered = FALSE]
    ELSE IF ~ConfigIsFile(a.config)
    THEN [NoRun EXCEPT !.err = "ClickException: The configuration file does not exist.",
                       !.entered = FALSE]
    ELSE IF "tpot" \notin ConfigFS[a.config].keys
    THEN [NoRun EXCEPT !.err = "KeyError: tpot", !.entered = FALSE]
    ELSE IF "autosklearn" \notin ConfigFS[a.config].keys
    THEN [NoRun EXCEPT !.err = "KeyError: autosklearn", !.entered = FALSE]
    ELSE IF "wrapper" \notin ConfigFS[a.config].keys
    THEN [NoRun EXCEPT !.err = "KeyError: wrapper", !.entered = FALSE]
    ELSE run_job(a.classifier, a.task_id.v, a.preprocessor, env, run_id)

\* whether cli reaches the config file with open(config, "r")
cli_reads_config(a) == ~TaskIdMissing(a.task_id) /\ ConfigIsFile(a.config)

\* where cli is after line 143: an exception of run_job ends the process; the
\* first is cli going on whatever run_job did
AfterRunJobIgnoreError(r) == "ran"
AfterRunJob(r) == IF r.err = "" THEN "ran" ELSE "failed"

NoCall == [entry |-> "none", proc |-> 0, classifier |-> "", task_id |-> None,
           config |-> "", preprocessor |-> None, apikey |-> None,
           err |-> "", run_id |-> 0, url |-> "", calls |-> <<>>,
           pipeline |-> NoPipeline, cfg_read |-> FALSE, log0 |-> AbsentLog]

Outcome(entry, p, a, r, cfg_read) ==
    [entry |-> entry, proc |-> p, classifier |-> a.classifier, task_id |-> a.task_id,
     config |-> a.config, preprocessor |-> a.preprocessor, apikey |-> a.apikey,
     err |-> r.err, run_id |-> r.run_id, url |-> r.url, calls |-> r.calls,
     pipeline |-> r.pipeline, cfg_read |-> cfg_read, log0 |-> log_file]

\* cli up to the return of run_job (lines 130-143)
CliRun(p, a, env) ==
    /\ pc[p] = "idle"
    /\ \E r \in {cli_run(a, env, next_run_id)} :
          /\ r.published => next_run_id <= MaxRunId
          /\ pc' = [pc EXCEPT ![p] = AfterRunJob(r)]
          /\ rec' = [rec EXCEPT ![p] = [id |-> r.run_id, url |-> r.url]]
          /\ apikey' = IF r.entered THEN ApikeyAfter(a.apikey, apikey) ELSE apikey
          /\ next_run_id' = IF r.published THEN next_run_id + 1 ELSE next_run_id
          /\ published' = IF r.published THEN published \cup {r.run_id} ELSE published
          /\ last' = Outcome("cli", p, a, r, cli_reads_config(a))
    /\ UNCHANGED <<log_file, data, completed, log_init, last_writer>>
    /\ UNCHANGED gen_vars

\* lines 146-149: data = {} or the log file's object
CliReadLog(p) ==
    /\ pc[p] = "ran"
    /\ IF log_file.state = "truncated"
       THEN /\ pc' = [pc EXCEPT ![p] = "failed"]
            /\ data' = data
       ELSE /\ pc' = [pc EXCEPT ![p] = "read"]
            /\ data' = [data EXCEPT ![p] =
                          IF log_file.state = "absent" THEN <<>> ELSE json_load(log_file.pairs)]
    /\ last' = NoCall
    /\ UNCHANGED <<log_file, apikey, next_run_id, rec, published, completed, log_init,
                   last_writer>>
    /\ UNCHANGED gen_vars

\* line 153: open(log, 'w') creates the file or empties it
CliOpenLog(p) ==
    /\ pc[p] = "read"
    /\ pc' = [pc EXCEPT ![p] = "opened"]
    /\ log_file' = TruncatedLog
    /\ last' = NoCall
    /\ UNCHANGED <<apikey, next_run_id, rec, data, published, completed, log_init,
                   last_writer>>
    /\ UNCHANGED gen_vars

\* the dict that line 151 updates and line 154 dumps: the one read at line
\* 149; the first is a dict read again when the file is written
MergeSourceReread(p) == IF log_file.state = "json" THEN json_load(log_file.pairs) ELSE data[p]
MergeSource(p) == data[p]

\* lines 151 and 154: data.update({id: output}); json.dump(data, f)
CliDumpLog(p) ==
    /\ pc[p] = "opened"
    /\ pc' = [pc EXCEPT ![p] = "done"]
    /\ log_file' = JsonLog(json_dump(dict_update(MergeSource(p), rec[p].id, rec[p].url)))
    /\ completed' = completed \cup {rec[p].id}
    /\ last_writer' = p
    /\ last' = NoCall
    /\ UNCHANGED <<apikey, next_run_id, rec, data, published, log_init>>
    /\ UNCHANGED gen_vars

\* the process ends; the next invocation is a new process
CliExit(p) ==
    /\ pc[p] \in {"done", "failed"}
    /\ pc' = [pc EXCEPT ![p] = "idle"]
    /\ rec' = [rec EXCEPT ![p] = NoRec]
    /\ data' = [data EXCEPT ![p] = <<>>]
    /\ last' = NoCall
    /\ last_writer' = IF last_writer = p THEN 0 ELSE last_writer
    /\ UNCHANGED <<log_file, apikey, next_run_id, published, completed, log_init>>
    /\ UNCHANGED gen_vars

\* Benchmark.run_job called directly
RunJobCall(a, env) ==
    /\ \E r \in {run_job(a.classifier, a.task_id.v, a.preprocessor, env, next_run_id)} :
          /\ r.published => next_run_id <= MaxRunId
          /\ apikey' = ApikeyAfter(a.apikey, apikey)
          /\ next_run_id' = IF r.published THEN next_run_id + 1 ELSE next_run_id
          /\ published' = IF r.published THEN published \cup {r.run_id} ELSE published
          /\ last' = Outcome("run_job", 0, a, r, FALSE)
    /\ UNCHANGED <<log_file, pc, rec, data, completed, log_init, last_writer>>
    /\ UNCHANGED gen_vars

\* Benchmark.get_preprocessor called directly
GetPreprocessorCall(a, env) ==
    /\ \E g \in {get_preprocessor(a.task_id.v, a.preprocessor, env)} :
          last' = Outcome("get_preprocessor", 0, a,
                          [NoRun EXCEPT !.err = g.err, !.calls = g.calls,
                                        !.pipeline = g.ret], FALSE)
    /\ UNCHANGED <<log_file, apikey, next_run_id, pc, rec, data, published, completed,
                   log_init, last_writer>>
    /\ UNCHANGED gen_vars

\* the caller of run_job or get_preprocessor is done with what it got
CallReturn ==
    /\ last.entry \in {"run_job", "get_preprocessor"}
    /\ last' = NoCall
    /\ UNCHANGED <<log_file, apikey, next_run_id, pc, rec, data, published, completed,
                   log_init, last_writer>>
    /\ UNCHANGED gen_vars

----------------------------------------------------------------------------
(* The initial states of the runner's part and of the generator's part. *)

RunnerIdle ==
    /\ log_file = AbsentLog
    /\ apikey = ""
    /\ next_run_id = 1
    /\ pc = [p \in Procs |-> "idle"]
    /\ rec = [p \in Procs |-> NoRec]
    /\ data = [p \in Procs |-> <<>>]
    /\ last = NoCall
    /\ published = {}
    /\ completed = {}
    /\ log_init = AbsentLog
    /\ last_writer = 0

-----
(* The job generator: a Benchmark is constructed in a working directory that *)
(* holds an empty jobs/ directory or none, then create_job (any options) and *)
(* create_jobs (default classifiers, any task list) are called in any order. *)

InitGen ==
    /\ bench = NoBench
    /\ dirs \in SUBSET {"jobs"}
    /\ files = << >>
    /\ subdirs = {}
    /\ lastcall = [p \in AllClassifiers \X Tasks |-> NoLastCall]
    /\ gen_last = NoGenCall
    /\ RunnerIdle

NextGen ==
    \/ \E jobs_dir \in JobsDirs :
          BenchmarkInit(Headers, PythonInterpreter, jobs_dir, ConfigFile)
    \/ \E task_id \in Tasks, clf_name \in GenClassifiers, o \in JobOptions :
          CreateJob(task_id, clf_name, o[1], o[2])
    \/ \E tasks \in Lists(Tasks) :
          CreateJobs(tasks, [given |-> FALSE, list |-> <<>>])

SpecGen == InitGen /\ [][NextGen]_vars

----------------------------------------------------------------------------
(* create_jobs on its own: a Benchmark with any jobs_dir, a jobs/ directory  *)
(* that is missing, empty or already holds scripts, and one create_jobs call *)
(* with any task list and any classifier list (or None); the classifier      *)
(* names include one that itself ends in an underscore and a number.         *)

JobNames == { JobFileName(c, t) : c \in GenClassifiers, t \in Tasks }
OldScript == "#old"

InitJobs ==
    /\ \E jobs_dir \in JobsDirs :
          bench = [made |-> TRUE, headers |-> Headers,
                   python_interpreter |-> PythonInterpreter,
                   jobs_dir |-> jobs_dir, config_file |-> ConfigFile]
    /\ dirs \in SUBSET JobsDirs
    /\ bench.jobs_dir \in dirs
    /\ \E present \in SUBSET JobNames : files = [n \in present |-> OldScript]
    /\ ("jobs" \notin dirs) => (DOMAIN files = {})
    /\ subdirs = {}
    /\ lastcall = [p \in AllClassifiers \X Tasks |-> NoLastCall]
    /\ gen_last = NoGenCall
    /\ RunnerIdle

NextJobs ==
    /\ gen_last.op = "none"
    /\ \E tasks \in Lists(Tasks) :
          \/ CreateJobs(tasks, [given |-> FALSE, list |-> <<>>])
          \/ \E list \in Lists(AllClassifiers) :
                CreateJobs(tasks, [given |-> TRUE, list |-> list])

SpecJobs == InitJobs /\ [][NextJobs]_vars

-----
(* Submission: a Benchmark over a jobs/ directory holding any mix of regular *)
(* files and subdirectories, submit_jobs called any number of times.         *)

InitSubmit ==
    /\ \E jobs_dir \in JobsDirs :
          bench = [made |-> TRUE, headers |-> Headers,
                   python_interpreter |-> PythonInterpreter,
                   jobs_dir |-> jobs_dir, config_file |-> ConfigFile]
    /\ dirs \in SUBSET JobsDirs
    /\ bench.jobs_dir \in dirs
    /\ \E kind \in [JobNames -> {"absent", "file", "dir"}] :
          /\ files = [n \in {m \in JobNames : kind[m] = "file"} |-> Headers]
          /\ subdirs = {m \in JobNames : kind[m] = "dir"}
    /\ ("jobs" \notin dirs) => (DOMAIN files = {} /\ subdirs = {})
    /\ lastcall = [p \in AllClassifiers \X Tasks |-> NoLastCall]
    /\ gen_last = NoGenCall
    /\ RunnerIdle

NextSubmit == gen_last.op = "none" /\ SubmitJobs

SpecSubmit == InitSubmit /\ [][NextSubmit]_vars

----------------------------------------------------------------------------
(* The runner, one invocation at a time: the log file is absent or holds a   *)
(* JSON object; cli, run_job and get_preprocessor are called with any        *)
(* arguments against collaborators that may fail at any call. A call starts  *)
(* once the outcome of the one before it has been taken (last is cleared).   *)

GeneratorIdle ==
    /\ bench = NoBench
    /\ dirs = {}
    /\ files = << >>
    /\ subdirs = {}
    /\ lastcall = [p \in AllClassifiers \X Tasks |-> NoLastCall]
    /\ gen_last = NoGenCall

\* the log files a runner can find: none, or an object over earlier run ids
RECURSIVE InitPairs(_, _)
InitPairs(ids, k) ==
    IF k > MaxRunId THEN <<>>
    ELSE (IF k \in ids THEN << <<ToString(k), InitUrl>> >> ELSE <<>>)
         \o InitPairs(ids, k + 1)
InitLogs == {AbsentLog} \cup { JsonLog(InitPairs(ids, 1)) : ids \in SUBSET RunIds }

InitRun ==
    /\ GeneratorIdle
    /\ log_file \in InitLogs
    /\ log_init = log_file
    /\ apikey = ""
    /\ next_run_id \in RunIds
    /\ pc = [p \in Procs |-> "idle"]
    /\ rec = [p \in Procs |-> NoRec]
    /\ data = [p \in Procs |-> <<>>]
    /\ last = NoCall
    /\ published = {}
    /\ completed = {}
    /\ last_writer = 0

CliArgs == [classifier : {"tpot", "autosklearn", "other"},
            task_id : {None, Some(""), Some(TaskId)},
            config : ConfigPaths,
            preprocessor : {Some("default"), Some("bogus")},
            apikey : {None, Some("KEY")}]
CallArgs == [classifier : {"tpot", "autosklearn", "other"},
             task_id : {Some(TaskId)},
             config : {""},
             preprocessor : {None, Some("default"), Some("bogus")},
             apikey : {None, Some("KEY")}]

OthersIdle(p) == \A q \in Procs \ {p} : pc[q] = "idle"
AllIdle == \A q \in Procs : pc[q] = "idle"

Returned == last.entry = "none"

NextSeq ==
    \/ \E p \in Procs :
          OthersIdle(p) /\ Returned /\ \E a \in CliArgs, env \in Envs : CliRun(p, a, env)
    \/ \E p \in Procs : OthersIdle(p) /\ CliReadLog(p)
    \/ \E p \in Procs : OthersIdle(p) /\ CliOpenLog(p)
    \/ \E p \in Procs : OthersIdle(p) /\ CliDumpLog(p)
    \/ \E p \in Procs : OthersIdle(p) /\ CliExit(p)
    \/ AllIdle /\ Returned /\ \E a \in CallArgs, env \in Envs : RunJobCall(a, env)
    \/ AllIdle /\ Returned /\ \E a \in CallArgs, env \in Envs : GetPreprocessorCall(a, env)
    \/ CallReturn

SpecSeq == InitRun /\ [][NextSeq]_vars

----------------------------------------------------------------------------
(* Concurrent runners on one log file: every process is a cli invocation     *)
(* with valid arguments, and the processes' steps interleave freely.         *)

ConcArgs == [classifier : {"tpot"}, task_id : {Some(TaskId)}, config : {"config.json"},
             preprocessor : {Some("default")}, apikey : {None}]
ConcEnvs == [fail : {"none", "run_job:publish"}, categorical : {<<FALSE>>}]

NextConc ==
    \/ \E p \in Procs : \E a \in ConcArgs, env \in ConcEnvs : CliRun(p, a, env)
    \/ \E p \in Procs : CliReadLog(p)
    \/ \E p \in Procs : CliOpenLog(p)
    \/ \E p \in Procs : CliDumpLog(p)
    \/ \E p \in Procs : CliExit(p)

SpecConc == InitRun /\ [][NextConc]_vars

----------------------------------------------------------------------------
(* Helpers of the properties. *)

\* the JSON object a log file holds, as json.load reads it: key -> value, a
\* repeated key with its last value; an absent file is the empty object
PairKeys(pairs) == { pairs[i][1] : i \in DOMAIN pairs }
LastIndex(pairs, k) ==
    CHOOSE i \in DOMAIN pairs :
        pairs[i][1] = k /\ \A j \in DOMAIN pairs : pairs[j][1] = k => j <= i
Obj(f) == [k \in PairKeys(f.pairs) |-> f.pairs[LastIndex(f.pairs, k)][2]]
Merge(m, k, v) == [x \in DOMAIN m \cup {k} |-> IF x = k THEN v ELSE m[x]]

UrlOf(id) == "https://www.openml.org/api/v1/json/run/" \o ToString(id)
KeysOf(ids) == { ToString(i) : i \in ids }
IdOfKey(ids, k) == CHOOSE i \in ids : ToString(i) = k

UnknownClassifier(c) == "ValueError: Classifier name " \o c \o " unknown"
UnknownPreprocessor(n) == "ValueError: Preprocessor " \o n \o " unknown"
\* the call failed in the collaborator at its last tracking-service call
FailedInCollaborator(c) ==
    /\ Len(c.calls) > 0
    /\ c.err = "collaborator error: " \o c.calls[Len(c.calls)].fn

ScriptName(c, t) == c \o "_" \o ToString(t) \o ".sh"
ScriptText(c, t, preprocessor, logname) ==
    "#PBS -l nodes=1\npython3 -m arbok --classifier " \o c
    \o " --task-id " \o ToString(t) \o " --config config.json --preprocessor "
    \o preprocessor \o " --log " \o logname \o " "

----------------------------------------------------------------------------
(* C1. *)

\* C1, as claimed: run_job with a classifier name other than "tpot" and
\* "autosklearn" fails with the unknown-classifier error and has made no
\* tracking-service call, whatever the preprocessor argument is.
C1_UnknownClassifierNoCalls ==
    (last.entry = "run_job" /\ last.classifier \notin {"tpot", "autosklearn"})
        => /\ last.err = UnknownClassifier(last.classifier)
           /\ last.calls = <<>>

\* C1, amended: run_job with an unknown classifier name never fetches the task
\* for the run, never runs a model and never publishes. With preprocessor None
\* it fails with the unknown-classifier error and no tracking-service call at
\* all. With a preprocessor name, get_preprocessor runs first: its calls (task,
\* dataset, data fetch) are made, and the unknown-classifier error is raised
\* only when the name is "default" and the three fetches succeeded; otherwise
\* the failure is get_preprocessor's own.
C1_UnknownClassifierAmended ==
    (last.entry = "run_job" /\ last.classifier \notin {"tpot", "autosklearn"})
        => /\ last.err # ""
           /\ last.run_id = 0
           /\ Len(last.calls) <= 3
           /\ \A i \in DOMAIN last.calls :
                 last.calls[i].fn = <<"get_task", "get_dataset", "get_data">>[i]
           /\ ~last.preprocessor.some
                 => /\ last.err = UnknownClassifier(last.classifier)
                    /\ last.calls = <<>>
           /\ last.preprocessor.some
                 => /\ Len(last.calls) > 0
                    /\ \/ /\ last.err = UnknownClassifier(last.classifier)
                          /\ last.preprocessor.v = "default"
                          /\ Len(last.calls) = 3
                       \/ /\ last.err = UnknownPreprocessor(last.preprocessor.v)
                          /\ last.preprocessor.v # "default"
                          /\ Len(last.calls) = 3
                       \/ FailedInCollaborator(last)

\* run_job("other", ..., preprocessor=None) has just failed
C1_Witness ==
    /\ last.entry = "run_job"
    /\ last.classifier = "other"
    /\ last.preprocessor = None
    /\ last.err = "ValueError: Classifier name other unknown"
    /\ last.calls = <<>>

----------------------------------------------------------------------------
(* C2. *)

\* C2: create_jobs(tasks, classifiers) with N distinct tasks and M distinct
\* classifier names on an existing, empty jobs/ directory succeeds and leaves
\* exactly N*M files there, one per (classifier, task) pair, named
\* {classifier}_{task_id}.sh, written in classifier-major order; this for every
\* jobs_dir the Benchmark was constructed with.
C2_CreateJobsFiles ==
    (/\ gen_last.op = "create_jobs"
     /\ "jobs" \in dirs
     /\ gen_last.pre_empty
     /\ Distinct(gen_last.tasks)
     /\ Distinct(gen_last.classifiers))
        => LET N == Len(gen_last.tasks)
               M == Len(gen_last.classifiers)
           IN /\ gen_last.err = ""
              /\ Cardinality(DOMAIN files) = N * M
              /\ DOMAIN files = { ScriptName(gen_last.classifiers[i], gen_last.tasks[j]) :
                                     i \in 1..M, j \in 1..N }
              /\ Len(gen_last.writes) = N * M
              /\ \A i \in 1..M, j \in 1..N :
                    gen_last.writes[(i - 1) * N + j] =
                        ScriptName(gen_last.classifiers[i], gen_last.tasks[j])

\* create_jobs of two tasks and two classifiers has filled an empty jobs/ of a
\* Benchmark whose jobs_dir is another directory
C2_Witness ==
    /\ gen_last.op = "create_jobs"
    /\ gen_last.pre_empty
    /\ gen_last.err = ""
    /\ bench.jobs_dir = "other"
    /\ Len(gen_last.tasks) = 2
    /\ gen_last.classifiers = <<"tpot_1", "tpot">>
    /\ gen_last.writes = <<"tpot_1_1.sh", "tpot_1_2.sh", "tpot_1.sh", "tpot_2.sh">>
    /\ Cardinality(DOMAIN files) = 4

----------------------------------------------------------------------------
(* C3. *)

\* C3: with one runner at a time, whenever no runner is in the middle of
\* rewriting the log, the log file holds the object it held before the first
\* invocation with, for every run whose runner completed, the key of the run id
\* mapped to the run's URL: all other entries are as they were, and an entry is
\* overwritten only under the key of a completed run. (In the file the
\* overwriting entry follows the overwritten one under the same key; json.load
\* reads the later one.)
C3_LogIsMerge ==
    (\A p \in Procs : pc[p] # "opened")
        => /\ (log_file.state = "absent") <=> (log_init.state = "absent" /\ completed = {})
           /\ log_file.state # "truncated"
           /\ Obj(log_file) =
                [k \in DOMAIN Obj(log_init) \cup KeysOf(completed) |->
                    IF k \in KeysOf(completed) THEN UrlOf(IdOfKey(completed, k))
                    ELSE Obj(log_init)[k]]

\* the log held {"1": "urlA"}, run 2 was published and its runner completed
C3_Witness ==
    /\ log_init = [state |-> "json", pairs |-> << <<"1", "urlA">> >>]
    /\ completed = {2}
    /\ \E p \in Procs : pc[p] = "done" /\ rec[p].id = 2
    /\ log_file = [state |-> "json",
                   pairs |-> << <<"1", "urlA">>,
                                <<"2", "https://www.openml.org/api/v1/json/run/2">> >>]

----------------------------------------------------------------------------
(* C4. *)

\* C4: with concurrent runners the file a runner writes is the object that
\* runner read at line 149 plus its own record, whatever the file holds at the
\* time of the write: nothing locks the file between the read and the write.
\* (C4_Witness is the state the claim says exists: a published run whose runner
\* completed and whose record the log lacks.)
C4_WriteIsStaleSnapshotPlusOwn ==
    \A p \in Procs :
        (pc[p] = "done" /\ last_writer = p /\ log_file.state = "json")
            => Obj(log_file) =
                 Merge(Obj([pairs |-> [i \in DOMAIN data[p] |->
                                          <<IF data[p][i].key.kind = "str"
                                               THEN data[p][i].key.s
                                               ELSE ToString(data[p][i].key.n),
                                            data[p][i].val>>]]),
                       ToString(rec[p].id), UrlOf(rec[p].id))

\* every runner has ended, two runs were published and recorded by their
\* runners, and the log lacks the record of one of them
C4_Witness ==
    /\ \A p \in Procs : pc[p] \in {"done", "idle"}
    /\ log_file.state = "json"
    /\ \E i \in completed :
          /\ i \in published
          /\ ToString(i) \notin DOMAIN Obj(log_file)
    /\ \E p, q \in Procs :
          /\ p # q /\ pc[p] = "done" /\ pc[q] = "done"
          /\ data[p] = data[q]

----------------------------------------------------------------------------
(* C5. *)

\* C5: cli fails with the ClickException "Please specify a task id." when
\* --task-id is absent (or empty), whatever the config is, and with the
\* ClickException "The configuration file does not exist." when the task id is
\* given and the config path is not a regular file; in both cases the config
\* was not read, no tracking-service call was made, no run was returned, the
\* process has ended in failure and the log file is as it was.
C5_CliArgumentErrors ==
    (last.entry = "cli")
        => /\ (~last.task_id.some \/ last.task_id.v = "")
                => /\ last.err = "ClickException: Please specify a task id."
                   /\ ~last.cfg_read
                   /\ last.calls = <<>>
                   /\ last.run_id = 0
                   /\ pc[last.proc] = "failed"
                   /\ log_file = last.log0
           /\ (last.task_id.some /\ last.task_id.v # ""
               /\ last.config \in {"missing.json", "confdir"})
                => /\ last.err = "ClickException: The configuration file does not exist."
                   /\ ~last.cfg_read
                   /\ last.calls = <<>>
                   /\ last.run_id = 0
                   /\ pc[last.proc] = "failed"
                   /\ log_file = last.log0

\* cli without a task id and with a config that does not exist has just failed
\* on the task id, next to a log file that exists
C5_Witness ==
    /\ last.entry = "cli"
    /\ last.task_id = None
    /\ last.config = "missing.json"
    /\ last.err = "ClickException: Please specify a task id."
    /\ log_file.state = "json"
    /\ pc[last.proc] = "failed"

----------------------------------------------------------------------------
(* C6. *)

\* C6: submit_jobs on an existing jobs/ directory returns normally and has
\* called the queue command exactly once for every regular file directly under
\* jobs/ and for nothing else (no subdirectory), each time with the two-word
\* command line "qsub jobs/<file>", whatever the exit status of any call.
C6_SubmitEveryFileOnce ==
    (gen_last.op = "submit_jobs" /\ "jobs" \in dirs)
        => /\ gen_last.err = ""
           /\ Len(gen_last.qsub) = Cardinality(DOMAIN files)
           /\ \A f \in DOMAIN files :
                 Cardinality({ i \in DOMAIN gen_last.qsub :
                                 gen_last.qsub[i].argv = <<"qsub", "jobs/" \o f>> }) = 1
           /\ \A i \in DOMAIN gen_last.qsub :
                 \E f \in DOMAIN files : gen_last.qsub[i].argv = <<"qsub", "jobs/" \o f>>

\* a submission failed and the files after it were submitted all the same,
\* next to a subdirectory that was not
C6_Witness ==
    /\ gen_last.op = "submit_jobs"
    /\ subdirs # {}
    /\ Len(gen_last.qsub) = 3
    /\ gen_last.qsub[1].rc # 0
    /\ gen_last.qsub[2].rc = 0
    /\ gen_last.qsub[3].rc # 0

----------------------------------------------------------------------------
(* C7. *)

\* C7: get_preprocessor(task_id, None) returns None without a tracking-service
\* call; get_preprocessor(task_id, "default") returns the two-stage pipeline
\* (imputer, one-hot encoder) over the categorical indicator less its last
\* entry; with any other name it returns nothing and fails, with the
\* unknown-preprocessor error; the only other failure of the last two is an
\* error raised by the tracking-service call made last.
C7_GetPreprocessor ==
    (last.entry = "get_preprocessor")
        => /\ ~last.preprocessor.some
                => /\ last.err = ""
                   /\ last.pipeline.kind = "None"
                   /\ last.calls = <<>>
           /\ (last.preprocessor.some /\ last.preprocessor.v = "default")
                => \/ /\ last.err = ""
                      /\ last.pipeline.kind = "Pipeline(ConditionalImputer, OneHotEncoder)"
                      /\ Len(last.calls) = 3
                   \/ /\ FailedInCollaborator(last)
                      /\ last.pipeline.kind = "None"
           /\ (last.preprocessor.some /\ last.preprocessor.v # "default")
                => /\ last.pipeline.kind = "None"
                   /\ \/ /\ last.err = UnknownPreprocessor(last.preprocessor.v)
                         /\ Len(last.calls) = 3
                      \/ FailedInCollaborator(last)

\* get_preprocessor(task_id, "bogus") has just failed with the
\* unknown-preprocessor error
C7_Witness ==
    /\ last.entry = "get_preprocessor"
    /\ last.preprocessor = Some("bogus")
    /\ last.err = "ValueError: Preprocessor bogus unknown"
    /\ last.pipeline.kind = "None"

----------------------------------------------------------------------------
(* C8. *)

\* C8: after any sequence of create_job and create_jobs calls, every
\* (classifier, task) pair that create_job was called for has its script file,
\* whose text is the header and the invocation line with the preprocessor and
\* log of the latest call for that pair and nothing of an earlier call; and
\* every file of jobs/ is the script of exactly one such pair.
C8_LastWriteWins ==
    /\ \A c \in AllClassifiers, t \in Tasks :
          lastcall[<<c, t>>].set
             => /\ ScriptName(c, t) \in DOMAIN files
                /\ files[ScriptName(c, t)] =
                      ScriptText(c, t, lastcall[<<c, t>>].preprocessor,
                                 lastcall[<<c, t>>].log)
    /\ \A n \in DOMAIN files :
          Cardinality({ p \in DOMAIN lastcall :
                          lastcall[p].set /\ ScriptName(p[1], p[2]) = n }) = 1

\* the script of (tpot, 1) was written with preprocessor "default" and then
\* again with "other", while the script of (tpot, 2) kept "default"
C8_Witness ==
    /\ gen_last.op = "create_job"
    /\ gen_last.tasks = <<1>>
    /\ gen_last.classifiers = <<"tpot">>
    /\ gen_last.replaced = ScriptText("tpot", 1, "default", "log.json")
    /\ files["tpot_1.sh"] = ScriptText("tpot", 1, "other", "run.json")
    /\ lastcall[<<"tpot", 2>>].set
    /\ files["tpot_2.sh"] = ScriptText("tpot", 2, "default", "log.json")

----------------------------------------------------------------------------
(* C9. *)

\* C9, as claimed: once a Benchmark is constructed, the directory its
\* constructor made sure of is the one create_job writes to, so that create_job
\* and create_jobs never fail for a missing directory.
C9_JobsDirIsScriptDir ==
    (bench.made /\ gen_last.op \in {"create_job", "create_jobs"})
        => gen_last.err # "FileNotFoundError"

----------------------------------------------------------------------------
(* C10. *)

\* C10: a runner is past line 143 only with the record of a published run; the
\* keys of the log file are keys it held before any runner started or ids of
\* published runs; the log differs from what it was before any runner started
\* only once a runner with a published run has opened it for writing; and when
\* cli has just failed (in its checks, the config, or anywhere in run_job) the
\* process has ended and the log file is as it was.
C10_LogOnlyAfterPublish ==
    /\ \A p \in Procs :
          pc[p] \in {"ran", "read", "opened", "done"}
             => /\ rec[p].id \in published
                /\ rec[p].url = UrlOf(rec[p].id)
    /\ PairKeys(log_file.pairs) \subseteq PairKeys(log_init.pairs) \cup KeysOf(published)
    /\ (log_file # log_init)
          => \/ completed # {} /\ completed \subseteq published
             \/ \E p \in Procs : pc[p] = "opened" /\ rec[p].id \in published
    /\ (last.entry = "cli" /\ last.err # "")
          => /\ pc[last.proc] = "failed"
             /\ log_file = last.log0

\* cli has just failed because publishing the run failed, next to a log file
\* that holds an object
C10_Witness ==
    /\ last.entry = "cli"
    /\ last.err = "collaborator error: publish"
    /\ Len(last.calls) = 6
    /\ log_file.state = "json"
    /\ log_file = last.log0
    /\ pc[last.proc] = "failed"

====
